---- MODULE Spec2Model ----
(***************************************************************************)
(* A model of the raytracer: vector algebra (vec.rs), sphere intersection  *)
(* (sphere.rs), the scene scan (ray.rs), the materials (material.rs), the  *)
(* sampler (main.rs), the image buffer (image.rs) and the PPM encoder      *)
(* (ppm.rs).                                                               *)
(*                                                                         *)
(* Numbers.  f64 scalars of the geometry are modelled by exact reals:      *)
(* vector components are integers, and a ray parameter t, which the code   *)
(* computes as (-half_b +- sqrt(discriminant)) / a, is kept as the record  *)
(* [num, sg, rad, den] standing for (num + sg*sqrt(rad)) / den, compared   *)
(* exactly.  NaN (0/0 for a zero direction) is the record with den = 0,    *)
(* for which every comparison is false, as in IEEE 754.                    *)
(***************************************************************************)
EXTENDS Integers, Sequences, FiniteSets

VARIABLES
    call,       \* geometry/material harness: the last call, its inputs and result
    settings,   \* RenderSettings
    img,        \* Image: [width, height, data]
    pc,         \* position of main: "config" .. "done"
    line, col,  \* fill_image / PPMWriter::write loop counters
    writes,     \* per buffer slot: how many times fill_image stored into it
    out,        \* PPMWriter: the sequence of pixels emitted so far
    reads,      \* per buffer slot: how many times PPMWriter::write read it
    trace       \* one sample's ray_color recursion

vars == <<call, settings, img, pc, line, col, writes, out, reads, trace>>

geomVars == <<call>>
renderVars == <<settings, img, pc, line, col, writes, out, reads>>
traceVars == <<trace>>

\* 0/0: every f64 comparison with it is false
NaN == [num |-> 0, sg |-> 1, rad |-> 0, den |-> 0]

(***************************************************************************)
(* vec.rs                                                                  *)
(***************************************************************************)
Vector_new(x, y, z) == [x |-> x, y |-> y, z |-> z]

Vector_neg(v) == [x |-> -v.x, y |-> -v.y, z |-> -v.z]

Vector_add(a, b) == [x |-> a.x + b.x, y |-> a.y + b.y, z |-> a.z + b.z]

Vector_sub(a, b) == [x |-> a.x - b.x, y |-> a.y - b.y, z |-> a.z - b.z]

Vector_mul(v, rhs) == [x |-> v.x * rhs, y |-> v.y * rhs, z |-> v.z * rhs]

length_squared(v) == v.x * v.x + v.y * v.y + v.z * v.z

dot(a, b) == a.x * b.x + a.y * b.y + a.z * b.z

cross_unsigned(a, b) ==
    [x |-> a.y * b.z - a.z * b.y,
     y |-> a.x * b.z - a.z * b.x,
     z |-> a.x * b.y - a.y * b.x]

cross(a, b) ==
    [x |-> a.y * b.z - a.z * b.y,
     y |-> a.z * b.x - a.x * b.z,
     z |-> a.x * b.y - a.y * b.x]

reflect(v, normal) == Vector_sub(v, Vector_mul(normal, 2 * dot(v, normal)))

(***************************************************************************)
(* Exact comparison of the f64 values (num + sg*sqrt(rad)) / den, den > 0. *)
(***************************************************************************)
Sgn(n) == IF n > 0 THEN 1 ELSE IF n < 0 THEN -1 ELSE 0

\* the sign of m + w*sqrt(n), n >= 0, w in {-1, 1}
SignSurd(m, w, n) ==
    LET r == IF n = 0 THEN 0 ELSE w
    IN  IF m = 0 THEN r
        ELSE IF r = 0 \/ Sgn(m) = r THEN Sgn(m)
        ELSE IF m * m > n THEN Sgn(m)
        ELSE IF m * m < n THEN r
        ELSE 0

\* the sign of k + u*sqrt(d1) + v*sqrt(d2), d1, d2 >= 0, u, v in {-1, 1}
SignSum(k, u, d1, v, d2) ==
    LET s1 == IF d1 = 0 THEN 0 ELSE u
        s2 == IF d2 = 0 THEN 0 ELSE v
        sx == IF s1 = 0 THEN s2
              ELSE IF s2 = 0 \/ s1 = s2 THEN s1
              ELSE s1 * Sgn(d1 - d2)
        c  == SignSurd(d1 + d2 - k * k, s1 * s2, 4 * d1 * d2)
    IN  IF k = 0 THEN sx
        ELSE IF sx = 0 \/ Sgn(k) = sx THEN Sgn(k)
        ELSE IF c > 0 THEN sx
        ELSE IF c < 0 THEN Sgn(k)
        ELSE 0

Num(m) == [num |-> m, sg |-> 1, rad |-> 0, den |-> 1]

\* s < t on f64; false when either side is NaN
Lt(s, t) ==
    /\ s.den # 0
    /\ t.den # 0
    /\ SignSum(t.den * s.num - s.den * t.num,
               s.sg, t.den * t.den * s.rad,
               -t.sg, s.den * s.den * t.rad) < 0

Gt(s, t) == Lt(t, s)

(***************************************************************************)
(* ray.rs, sphere.rs                                                       *)
(***************************************************************************)
Ray_new(origin, direction) == [origin |-> origin, direction |-> direction]

\* f64::MAX: above every root the model's scenes have, and small enough for
\* the squares of the comparisons to stay within TLC's integers
T_INFINITY == 1000

NoHit == [some |-> FALSE]

\* HitRecord::new; the point and the normal are functions of the ray and t
HitRecord_new(t) == [some |-> TRUE, t |-> t]

within_range_closed(t, min, max) == ~Lt(t, min) /\ ~Gt(t, max) /\ t.den # 0

within_range(t, min, max) == Gt(t, min) /\ Lt(t, max)

\* (num + sg*sqrt(rad)) / a; for a = 0 the code divides 0 by 0
Root(num, sg, rad, a) == [num |-> num, sg |-> sg, rad |-> rad, den |-> a]

Sphere_hit(s, ray, t_min, t_max) ==
    LET c_to_o == Vector_sub(ray.origin, s.center)
        a == length_squared(ray.direction)
        half_b == dot(ray.direction, c_to_o)
        c == length_squared(c_to_o) - s.radius * s.radius
        discriminant == half_b * half_b - a * c
        t1 == Root(-half_b, -1, discriminant, a)
        t2 == Root(-half_b, 1, discriminant, a)
    IN  IF discriminant < 0 THEN NoHit
        ELSE IF ~within_range(t1, t_min, t_max)
             THEN IF ~within_range(t2, t_min, t_max) THEN NoHit
                  ELSE HitRecord_new(t2)
             ELSE HitRecord_new(t1)

RECURSIVE scan_no_narrowing(_, _, _, _, _, _)
scan_no_narrowing(vec, i, ray, t_min, t_max, hit) ==
    IF i > Len(vec) THEN hit
    ELSE LET h == Sphere_hit(vec[i], ray, t_min, t_max)
         IN  scan_no_narrowing(vec, i + 1, ray, t_min, t_max,
                               IF h.some THEN h ELSE hit)

HittableVec_hit_by_last(vec, ray, t_min, t_max) ==
    scan_no_narrowing(vec, 1, ray, t_min, t_max, NoHit)

\* the loop of HittableVec::hit_by from item i on
RECURSIVE scan(_, _, _, _, _, _)
scan(vec, i, ray, t_min, closest, hit) ==
    IF i > Len(vec) THEN hit
    ELSE LET h == Sphere_hit(vec[i], ray, t_min, closest)
         IN  IF h.some THEN scan(vec, i + 1, ray, t_min, h.t, h)
             ELSE scan(vec, i + 1, ray, t_min, closest, hit)

HittableVec_hit_by(vec, ray, t_min, t_max) ==
    scan(vec, 1, ray, t_min, t_max, NoHit)

(***************************************************************************)
(* image.rs: a Color's channels are f64, modelled in thousandths           *)
(***************************************************************************)
Color_new(red, green, blue) == [red |-> red, green |-> green, blue |-> blue]

\* f64 NaN and +infinity of a channel; the model's channels are never negative
F_NAN == -1000000
F_INF == 1000000

\* f64 <, >: false when either side is NaN
FLt(a, b) == a # F_NAN /\ b # F_NAN /\ a < b
FGt(a, b) == FLt(b, a)

FAdd(a, b) ==
    IF a = F_NAN \/ b = F_NAN THEN F_NAN
    ELSE IF a = F_INF \/ b = F_INF THEN F_INF
    ELSE a + b

\* thousandths times thousandths; infinity * 0 is NaN
FMul(a, b) ==
    IF a = F_NAN \/ b = F_NAN THEN F_NAN
    ELSE IF a = F_INF \/ b = F_INF THEN (IF a = 0 \/ b = 0 THEN F_NAN ELSE F_INF)
    ELSE (a * b) \div 1000

\* 1.0 / val for an integer val >= 0
FRecip(val) == IF val = 0 THEN F_INF ELSE 1000 \div val

RECURSIVE sqrt_between(_, _, _)
\* the largest r in lo .. hi with r * r <= n
sqrt_between(n, lo, hi) ==
    IF lo >= hi THEN lo
    ELSE LET mid == (lo + hi + 1) \div 2
         IN  IF mid * mid <= n THEN sqrt_between(n, mid, hi)
             ELSE sqrt_between(n, lo, mid - 1)

\* f64::powf(x, e) for the exponents 1.0 and 0.5 (gamma 1 and 2); the square
\* root of x thousandths is sqrt(1000 * x) thousandths, rounded down
powf(x, e) ==
    IF x = F_NAN \/ x < 0 THEN F_NAN
    ELSE IF x = F_INF THEN F_INF
    ELSE IF e = 1000 THEN x
    ELSE sqrt_between(1000 * x, 0, 1000 + x)

clamp(val, min, max) ==
    IF FLt(val, min) THEN min
    ELSE IF FGt(val, max) THEN max
    ELSE val

Color_clamp(c, min, max) ==
    [red |-> clamp(c.red, min, max),
     green |-> clamp(c.green, min, max),
     blue |-> clamp(c.blue, min, max)]

BLACK == Color_new(0, 0, 0)
WHITE == Color_new(1000, 1000, 1000)

Color_default == BLACK

Color_add(a, b) ==
    [red |-> FAdd(a.red, b.red), green |-> FAdd(a.green, b.green),
     blue |-> FAdd(a.blue, b.blue)]

\* Mul<&Color> for f64
Color_scale(f, c) ==
    [red |-> FMul(c.red, f), green |-> FMul(c.green, f), blue |-> FMul(c.blue, f)]

\* Mul<Color> for Color
Color_mul(a, b) ==
    [red |-> FMul(a.red, b.red), green |-> FMul(a.green, b.green),
     blue |-> FMul(a.blue, b.blue)]

\* Div<f64> for &Color
Color_div(c, val) == Color_scale(FRecip(val), c)

Image_new(width, height) ==
    [width |-> width, height |-> height,
     data |-> [i \in 1 .. width * height |-> Color_default]]

(***************************************************************************)
(* material.rs                                                             *)
(***************************************************************************)
NoRay == [some |-> FALSE]

MaterialEffect_new(attenuation, scatter) ==
    [attenuation |-> attenuation, scattered |-> [some |-> TRUE, ray |-> scatter]]

MaterialEffect_with_attenuation(attenuation) ==
    [attenuation |-> attenuation, scattered |-> NoRay]

Lambertian_new(albedo) == [kind |-> "Lambertian", albedo |-> albedo]

Lambertian_scatter_guarded(m, ray, hit, rnd) ==
    LET scatter_dir == Vector_add(hit.normal, rnd)
    IN  IF length_squared(scatter_dir) = 0
        THEN MaterialEffect_with_attenuation(m.albedo)
        ELSE MaterialEffect_new(m.albedo, Ray_new(hit.point, scatter_dir))

\* rnd is the value random_unit_vector() returns
Lambertian_scatter(m, ray, hit, rnd) ==
    LET scatter_dir == Vector_add(hit.normal, rnd)
        scattered == Ray_new(hit.point, scatter_dir)
    IN  MaterialEffect_new(m.albedo, scattered)

Metal_new(albedo, fuziness) ==
    [kind |-> "Metal", albedo |-> albedo,
     fuzz |-> IF fuziness < 1 THEN fuziness ELSE 1]

\* rnd is the value random_unit_vector() returns
Metal_scatter(m, ray, hit, rnd) ==
    LET reflected == reflect(ray.direction, hit.normal)
    IN  IF dot(reflected, hit.normal) > 0
        THEN MaterialEffect_new(m.albedo,
                 Ray_new(hit.point, Vector_add(reflected, Vector_mul(rnd, m.fuzz))))
        ELSE MaterialEffect_with_attenuation(m.albedo)

(***************************************************************************)
(* Inputs of the geometry and material calls                               *)
(***************************************************************************)
MaxCoord == 1
MaxSpheres == 2

Coords == -MaxCoord .. MaxCoord

Cube == {Vector_new(x, y, z) : x \in Coords, y \in Coords, z \in Coords}

\* the vectors of test::dot_example and test::cross_example
TestVectors ==
    {Vector_new(1, 5, 3), Vector_new(1, 3, 3), Vector_new(2, 3, 4), Vector_new(5, 6, 7)}

VecInputs == Cube \cup TestVectors

\* the unit vectors with integer components
UnitVectors == {v \in Cube : length_squared(v) = 1}

Origins == {Vector_new(0, 0, 0)}
Directions ==
    {Vector_new(0, 0, -1), Vector_new(0, 0, -2), Vector_new(0, 1, -2), Vector_new(0, 0, 0)}
Rays == {Ray_new(o, d) : o \in Origins, d \in Directions}

Sphere_new(center, radius) == [center |-> center, radius |-> radius]
Centers ==
    {Vector_new(0, 0, -2), Vector_new(0, 0, -4), Vector_new(0, 1, -3), Vector_new(0, 0, 0)}
Radii == {1, 2}
Spheres == {Sphere_new(c, r) : c \in Centers, r \in Radii}
Worlds == UNION {[1 .. n -> Spheres] : n \in 0 .. MaxSpheres}

TMins == {Num(0), Num(1)}
TMaxs == {Num(3), Num(T_INFINITY)}

Albedos == {Color_new(500, 500, 500), Color_new(700, 600, 500)}
Fuzzes == {-1, 0, 1, 2}
HitPoints == {Vector_new(0, 0, -1), Vector_new(1, 1, 0)}

(***************************************************************************)
(* The calls: each action draws the inputs of one call and records them    *)
(* with what the function returns.                                         *)
(***************************************************************************)
NoCall == [op |-> "none"]

ScatterArgs ==
    {[ray |-> Ray_new(Vector_new(0, 0, 0), d), hit |-> [point |-> p, normal |-> n],
      rnd |-> rnd] :
        d \in Cube, p \in HitPoints, n \in UnitVectors, rnd \in UnitVectors}

CallDotCross ==
    /\ call = NoCall
    /\ \E a \in VecInputs, b \in VecInputs :
           call' = [op |-> "dot_cross", a |-> a, b |-> b,
                    dot |-> dot(a, b), cross |-> cross(a, b)]
    /\ UNCHANGED <<renderVars, traceVars>>

CallSphereHit ==
    /\ call = NoCall
    /\ \E s \in Spheres, ray \in Rays, t_min \in TMins, t_max \in TMaxs :
           call' = [op |-> "hit", sphere |-> s, ray |-> ray,
                    t_min |-> t_min, t_max |-> t_max,
                    hit |-> Sphere_hit(s, ray, t_min, t_max)]
    /\ UNCHANGED <<renderVars, traceVars>>

CallHitBy ==
    /\ call = NoCall
    /\ \E vec \in Worlds, ray \in Rays, t_min \in TMins, t_max \in TMaxs :
           call' = [op |-> "hit_by", vec |-> vec, ray |-> ray,
                    t_min |-> t_min, t_max |-> t_max,
                    hit |-> HittableVec_hit_by(vec, ray, t_min, t_max)]
    /\ UNCHANGED <<renderVars, traceVars>>

CallLambertianScatter ==
    /\ call = NoCall
    /\ \E albedo \in Albedos, x \in ScatterArgs :
           LET m == Lambertian_new(albedo)
           IN  call' = [op |-> "lambertian", material |-> m, ray |-> x.ray,
                        hit |-> x.hit, rnd |-> x.rnd,
                        effect |-> Lambertian_scatter(m, x.ray, x.hit, x.rnd)]
    /\ UNCHANGED <<renderVars, traceVars>>

CallMetalScatter ==
    /\ call = NoCall
    /\ \E albedo \in Albedos, f \in Fuzzes, x \in ScatterArgs :
           LET m == Metal_new(albedo, f)
           IN  call' = [op |-> "metal", material |-> m, ray |-> x.ray,
                        hit |-> x.hit, rnd |-> x.rnd,
                        effect |-> Metal_scatter(m, x.ray, x.hit, x.rnd)]
    /\ UNCHANGED <<renderVars, traceVars>>

(***************************************************************************)
(* The hit record with its orientation (ray.rs, HitRecord::new).  A point  *)
(* or normal of a hit has components (rat + irr*sqrt(rad)) / den and is    *)
(* the record [rat, irr, rad, den] of two integer vectors and two integers.*)
(* sphere.rs as given builds its record without front_face; the sphere's   *)
(* computation of the outward normal and of front_face follows section 4.3 *)
(* of the specification.                                                   *)
(***************************************************************************)
\* Ray::at(t) = origin + t * direction, for t = (num + sg*sqrt(rad)) / den
Ray_at(ray, t) ==
    [rat |-> Vector_add(Vector_mul(ray.origin, t.den), Vector_mul(ray.direction, t.num)),
     irr |-> Vector_mul(ray.direction, t.sg),
     rad |-> t.rad,
     den |-> t.den]

\* Neg for Vector, on a point or normal of a hit
SurdVector_neg(n) == [n EXCEPT !.rat = Vector_neg(@), !.irr = Vector_neg(@)]

\* dot(v, n) for an integer vector v and a point or normal n of a hit
dot_surd(v, n) ==
    LET k == dot(v, n.irr)
        s == IF n.den < 0 THEN -1 ELSE 1
    IN  [num |-> s * dot(v, n.rat),
         sg |-> IF s * k < 0 THEN -1 ELSE 1,
         rad |-> k * k * n.rad,
         den |-> s * n.den]

HitRecord_new_unflipped(point, normal, t, front_face, material) ==
    [some |-> TRUE, point |-> point, normal |-> normal, t |-> t,
     material |-> material, front_face |-> front_face]

\* HitRecord::new
HitRecord_new_faced(point, normal, t, front_face, material) ==
    LET oriented == IF front_face THEN normal ELSE SurdVector_neg(normal)
    IN  [some |-> TRUE, point |-> point, normal |-> oriented, t |-> t,
         material |-> material, front_face |-> front_face]

\* (hit_point - center) / radius
outward_normal(s, point) ==
    [rat |-> Vector_sub(point.rat, Vector_mul(s.center, point.den)),
     irr |-> point.irr,
     rad |-> point.rad,
     den |-> point.den * s.radius]

\* front_face = dot(ray.direction, outward_normal) < 0
front_face(ray, normal) == Lt(dot_surd(ray.direction, normal), Num(0))

\* Sphere's hit_by: the root Sphere::hit selects, then the oriented record
Sphere_hit_by(s, ray, t_min, t_max) ==
    LET h == Sphere_hit(s, ray, t_min, t_max)
    IN  IF ~h.some THEN NoHit
        ELSE LET intersect == Ray_at(ray, h.t)
                 normal == outward_normal(s, intersect)
             IN  HitRecord_new_faced(intersect, normal, h.t,
                                     front_face(ray, normal), s.material)

\* a negative radius models an inner surface
FaceRadii == {1, 2, -1}
FaceSpheres ==
    {[center |-> c, radius |-> r, material |-> Lambertian_new(Color_new(500, 500, 500))] :
        c \in Centers, r \in FaceRadii}

CallSphereHitBy ==
    /\ call = NoCall
    /\ \E s \in FaceSpheres, ray \in Rays, t_min \in TMins, t_max \in TMaxs :
           call' = [op |-> "sphere_hit_by", sphere |-> s, ray |-> ray,
                    t_min |-> t_min, t_max |-> t_max,
                    hit |-> Sphere_hit_by(s, ray, t_min, t_max)]
    /\ UNCHANGED <<renderVars, traceVars>>

\* main is not running: the image and the loops of fill_image and write are unused
RenderIdle ==
    /\ img = <<>> /\ pc = "idle" /\ line = 0 /\ col = 0
    /\ writes = <<>> /\ out = <<>> /\ reads = <<>>

SettingsIdle == settings = <<>>

GeomIdle == call = NoCall

TraceIdle == trace = <<>>

GeomInit == call = NoCall /\ RenderIdle /\ SettingsIdle /\ TraceIdle

GeomNext ==
    \/ CallDotCross
    \/ CallSphereHit
    \/ CallHitBy
    \/ CallLambertianScatter
    \/ CallMetalScatter
    \/ CallSphereHitBy

SpecGeom == GeomInit /\ [][GeomNext]_vars

(***************************************************************************)
(* Claims about the geometry and the materials (SpecGeom)                  *)
(***************************************************************************)
Eq(s, t) == s.den # 0 /\ t.den # 0 /\ ~Lt(s, t) /\ ~Lt(t, s)

\* the coefficients of the quadratic a*t^2 + 2*half_b*t + c = 0 of a sphere and a ray
Quadratic(s, ray) ==
    LET c_to_o == Vector_sub(ray.origin, s.center)
    IN  [a |-> length_squared(ray.direction),
         half_b |-> dot(ray.direction, c_to_o),
         c |-> length_squared(c_to_o) - s.radius * s.radius]

Discriminant(q) == q.half_b * q.half_b - q.a * q.c

\* t = (num + sg*sqrt(rad)) / a solves a*t^2 + 2*half_b*t + c = 0
IsRootOf(t, q) ==
    /\ q.a > 0
    /\ t.den = q.a
    /\ t.num * t.num + t.rad + 2 * q.half_b * t.num + q.a * q.c = 0
    /\ (t.rad = 0 \/ t.num + q.half_b = 0)

\* the real parameters at which the ray meets the sphere's surface
SphereRoots(s, ray) ==
    LET q == Quadratic(s, ray)
    IN  IF Discriminant(q) < 0 \/ q.a = 0 THEN {}
        ELSE {Root(-q.half_b, -1, Discriminant(q), q.a),
              Root(-q.half_b, 1, Discriminant(q), q.a)}

RootsInside(vec, ray, t_min, t_max) ==
    {r \in UNION {SphereRoots(vec[i], ray) : i \in 1 .. Len(vec)} :
        Gt(r, t_min) /\ Lt(r, t_max)}

Reorderings(vec) ==
    {[i \in 1 .. Len(vec) |-> vec[p[i]]] :
        p \in {f \in [1 .. Len(vec) -> 1 .. Len(vec)] :
                  \A i, j \in 1 .. Len(vec) : f[i] = f[j] => i = j}}

\* C1: HittableVec.hit_by returns the hit with the smallest t among all
\* intersections inside (t_min, t_max), returns none exactly when there is no
\* such intersection, and returns the same t for every permutation of the list.
ThmC1_NearestHit ==
    (call.op = "hit_by") =>
        LET inside == RootsInside(call.vec, call.ray, call.t_min, call.t_max)
        IN  /\ call.hit.some <=> inside # {}
            /\ call.hit.some =>
                  /\ \E r \in inside : Eq(r, call.hit.t)
                  /\ \A r \in inside : ~Lt(r, call.hit.t)
            /\ \A w \in Reorderings(call.vec) :
                  LET h == HittableVec_hit_by(w, call.ray, call.t_min, call.t_max)
                  IN  /\ h.some = call.hit.some
                      /\ h.some => Eq(h.t, call.hit.t)

\* a scene whose first sphere is hit nearer than its second: the scan must keep
\* the first hit although the second sphere intersects the ray inside the interval
WitC1_NearestFirst ==
    /\ call.op = "hit_by"
    /\ Len(call.vec) >= 2
    /\ call.hit.some
    /\ LET h2 == Sphere_hit(call.vec[2], call.ray, call.t_min, call.t_max)
       IN  h2.some /\ Gt(h2.t, call.hit.t)

\* C9: with a non-negative discriminant and roots t1 <= t2 the sphere reports
\* t1 when t_min < t1 < t_max, else t2 when t_min < t2 < t_max, else nothing;
\* with a negative discriminant nothing.  A reported t is a root strictly
\* inside (t_min, t_max); a root equal to t_min or t_max is never reported.
ThmC9_RootSelection ==
    (call.op = "hit") =>
        LET q == Quadratic(call.sphere, call.ray)
            d == Discriminant(q)
            t1 == Root(-q.half_b, -1, d, q.a)
            t2 == Root(-q.half_b, 1, d, q.a)
            in1 == Gt(t1, call.t_min) /\ Lt(t1, call.t_max)
            in2 == Gt(t2, call.t_min) /\ Lt(t2, call.t_max)
        IN  /\ d < 0 => ~call.hit.some
            /\ (d >= 0 /\ q.a > 0) => ~Gt(t1, t2)
            /\ (d >= 0 /\ in1) => (call.hit.some /\ call.hit.t = t1)
            /\ (d >= 0 /\ ~in1 /\ in2) => (call.hit.some /\ call.hit.t = t2)
            /\ (d >= 0 /\ ~in1 /\ ~in2) => ~call.hit.some
            /\ call.hit.some =>
                  /\ IsRootOf(call.hit.t, q)
                  /\ Gt(call.hit.t, call.t_min) /\ Lt(call.hit.t, call.t_max)
                  /\ ~Eq(call.hit.t, call.t_min) /\ ~Eq(call.hit.t, call.t_max)

\* the smaller root equals t_min, so the larger root is the one reported
WitC9_FarRoot ==
    /\ call.op = "hit" /\ call.hit.some
    /\ LET q == Quadratic(call.sphere, call.ray)
       IN  /\ Eq(Root(-q.half_b, -1, Discriminant(q), q.a), call.t_min)
           /\ call.hit.t = Root(-q.half_b, 1, Discriminant(q), q.a)
           /\ Discriminant(q) > 0

\* C7: dot(a, b) = a.x*b.x + a.y*b.y + a.z*b.z and cross(a, b) is the
\* determinant formula, so cross(a, b) = -cross(b, a) and cross(a, b) is
\* orthogonal to a and to b; dot((1,5,3),(1,3,3)) = 25 and
\* cross((2,3,4),(5,6,7)) = (-3,6,-3).
ThmC7_DotCross ==
    (call.op = "dot_cross") =>
        LET a == call.a
            b == call.b
        IN  /\ call.dot = a.x * b.x + a.y * b.y + a.z * b.z
            /\ call.cross = Vector_new(a.y * b.z - a.z * b.y,
                                       a.z * b.x - a.x * b.z,
                                       a.x * b.y - a.y * b.x)
            /\ call.cross = Vector_neg(cross(b, a))
            /\ dot(call.cross, a) = 0
            /\ dot(call.cross, b) = 0
            /\ (a = Vector_new(1, 5, 3) /\ b = Vector_new(1, 3, 3)) => call.dot = 25
            /\ (a = Vector_new(2, 3, 4) /\ b = Vector_new(5, 6, 7))
                  => call.cross = Vector_new(-3, 6, -3)

\* the call of test::cross_example
WitC7_CrossExample ==
    /\ call.op = "dot_cross"
    /\ call.a = Vector_new(2, 3, 4) /\ call.b = Vector_new(5, 6, 7)
    /\ call.cross = Vector_new(-3, 6, -3)
    /\ call.dot = 56

\* C6: Lambertian.scatter never absorbs: the effect holds a scattered ray that
\* starts at the hit point, and its attenuation is the material's albedo.
ThmC6_LambertianScatters ==
    (call.op = "lambertian") =>
        /\ call.effect.scattered.some
        /\ call.effect.scattered.ray.origin = call.hit.point
        /\ call.effect.attenuation = call.material.albedo

\* the random vector cancels the normal: the scattered direction is the zero
\* vector and the ray is still emitted
WitC6_DegenerateDirection ==
    /\ call.op = "lambertian"
    /\ Vector_add(call.hit.normal, call.rnd) = Vector_new(0, 0, 0)
    /\ call.effect.scattered.some
    /\ call.effect.scattered.ray.direction = Vector_new(0, 0, 0)

\* C8: Metal.scatter emits a scattered ray exactly when the fuzzed direction
\* reflect(incoming.direction, normal) + fuzz * random_unit_vector() has a
\* positive dot product with the normal, the attenuation is the albedo either
\* way, and every emitted direction has a positive dot product with the normal.
CexC8_FuzzedDecision ==
    (call.op = "metal") =>
        LET fuzzed == Vector_add(reflect(call.ray.direction, call.hit.normal),
                                 Vector_mul(call.rnd, call.material.fuzz))
        IN  /\ call.effect.scattered.some <=> dot(fuzzed, call.hit.normal) > 0
            /\ call.effect.attenuation = call.material.albedo
            /\ call.effect.scattered.some =>
                  dot(call.effect.scattered.ray.direction, call.hit.normal) > 0

MaxWidth == 3

\* the u16 values the setters are called with
SampleCounts == {0, 1, 2}
BounceLimits == {0, 1, 2, 32768, 65535}
Gammas == {1, 2}

RenderSettings_default ==
    [antialiasing_samples |-> 1, ray_bounce_limit |-> 0, gamma |-> 1000]

aa_samples(s, val) == [s EXCEPT !.antialiasing_samples = val]

ray_bounce_limit(s, val) == [s EXCEPT !.ray_bounce_limit = val]

gamma(s, val) == [s EXCEPT !.gamma = FRecip(val)]

\* u16 as i16
AsI16(v) == IF v >= 32768 THEN v - 65536 ELSE v

\* main: Image::new(width, (width / aspect_ratio) as usize), aspect_ratio = 3/2
MainImage(width) == Image_new(width, (2 * width) \div 3)

NaNColor == Color_new(F_NAN, F_NAN, F_NAN)

\* What ray_color returns for a sample of this image.  A negative depth gives
\* black.  With width = 1 or height = 1 the divisor of u or v is 0.0, the ray's
\* direction is not finite, no sphere test succeeds and unit(direction) is NaN,
\* so the background colour is NaN.  Otherwise the sample is absorbed (black)
\* or reaches the background (white for a ray pointing straight down).
SampleColors(image, s) ==
    IF AsI16(s.ray_bounce_limit) < 0 THEN {BLACK}
    ELSE IF image.width - 1 = 0 \/ image.height - 1 = 0 THEN {NaNColor}
    ELSE {BLACK, WHITE}

RECURSIVE Accumulate(_, _, _)
\* the loop `for _ in 0..samples { color = color + ray_color(..) }`
Accumulate(colors, i, color) ==
    IF i > Len(colors) THEN color
    ELSE Accumulate(colors, i + 1, Color_add(color, colors[i]))

\* fill_image, lines 253-268: the colour stored for a pixel whose samples
\* returned `colors`
PixelColor(colors, s) ==
    LET sum == Accumulate(colors, 1, BLACK)
        mean == Color_div(sum, s.antialiasing_samples)
        corrected == [red |-> powf(mean.red, s.gamma),
                      green |-> powf(mean.green, s.gamma),
                      blue |-> powf(mean.blue, s.gamma)]
    IN  Color_clamp(corrected, 0, 999)

PixelIndex_by_height(image, l, c) == l * image.height + c

\* fill_image, line 252: the slot of pixel (line, col)
PixelIndex(image, l, c) == l * image.width + c

\* ppm.rs, line 24: the slot PPMWriter::write reads for (l, c)
PPMIndex(image, l, c) == l * image.height + c

\* (f * 255.0) as u8: the cast saturates and maps NaN to 0
numerize(f) ==
    IF f = F_NAN THEN 0
    ELSE IF f = F_INF THEN 255
    ELSE LET v == (f * 255) \div 1000
         IN  IF v < 0 THEN 0 ELSE IF v > 255 THEN 255 ELSE v

RECURSIVE write_from(_, _, _, _)
\* the loops of PPMWriter::write from pixel k (row-major) on; an index past
\* the end of the buffer panics
write_from(image, k, emitted, counts) ==
    IF k >= image.width * image.height
    THEN [panic |-> FALSE, out |-> emitted, reads |-> counts]
    ELSE LET l == k \div image.width
             c == k % image.width
             idx == PPMIndex(image, l, c)
         IN  IF idx >= Len(image.data)
             THEN [panic |-> TRUE, out |-> emitted, reads |-> counts]
             ELSE LET px == image.data[idx + 1]
                  IN  write_from(image, k + 1,
                          Append(emitted, [red |-> numerize(px.red),
                                           green |-> numerize(px.green),
                                           blue |-> numerize(px.blue)]),
                          [counts EXCEPT ![idx + 1] = @ + 1])

SetSamples ==
    /\ pc = "aa_samples"
    /\ \E val \in SampleCounts : settings' = aa_samples(settings, val)
    /\ pc' = "ray_bounce_limit"
    /\ UNCHANGED <<img, line, col, writes, out, reads, geomVars, traceVars>>

SetBounceLimit ==
    /\ pc = "ray_bounce_limit"
    /\ \E val \in BounceLimits : settings' = ray_bounce_limit(settings, val)
    /\ pc' = "gamma"
    /\ UNCHANGED <<img, line, col, writes, out, reads, geomVars, traceVars>>

SetGamma ==
    /\ pc = "gamma"
    /\ \E val \in Gammas : settings' = gamma(settings, val)
    /\ pc' = "fill_image"
    /\ UNCHANGED <<img, line, col, writes, out, reads, geomVars, traceVars>>

\* one iteration of the column loop of fill_image
FillPixel ==
    /\ pc = "fill_image"
    /\ line < img.height /\ col < img.width
    /\ \E colors \in [1 .. settings.antialiasing_samples -> SampleColors(img, settings)] :
           LET idx == PixelIndex(img, line, col)
           IN  /\ img' = [img EXCEPT !.data[idx + 1] = PixelColor(colors, settings)]
               /\ writes' = [writes EXCEPT ![idx + 1] = @ + 1]
    /\ IF col + 1 < img.width
       THEN col' = col + 1 /\ line' = line
       ELSE col' = 0 /\ line' = line + 1
    /\ UNCHANGED <<settings, pc, out, reads, geomVars, traceVars>>

\* the loops of fill_image end
FillDone ==
    /\ pc = "fill_image"
    /\ line >= img.height \/ img.width = 0
    /\ pc' = "write"
    /\ UNCHANGED <<settings, img, line, col, writes, out, reads, geomVars, traceVars>>

\* writer.write(&img)
WriteImage ==
    /\ pc = "write"
    /\ LET r == write_from(img, 0, <<>>, reads)
       IN  /\ out' = r.out
           /\ reads' = r.reads
           /\ pc' = IF r.panic THEN "panic" ELSE "done"
    /\ UNCHANGED <<settings, img, line, col, writes, geomVars, traceVars>>

Init ==
    /\ \E width \in 0 .. MaxWidth :
           /\ img = MainImage(width)
           /\ writes = [i \in 1 .. Len(MainImage(width).data) |-> 0]
           /\ reads = [i \in 1 .. Len(MainImage(width).data) |-> 0]
    /\ settings = RenderSettings_default
    /\ pc = "aa_samples"
    /\ line = 0 /\ col = 0
    /\ out = <<>>
    /\ GeomIdle
    /\ TraceIdle

Next ==
    \/ SetSamples
    \/ SetBounceLimit
    \/ SetGamma
    \/ FillPixel
    \/ FillDone
    \/ WriteImage

Spec == Init /\ [][Next]_vars

(***************************************************************************)
(* main.rs: one antialiasing sample, ray_color                             *)
(*                                                                         *)
(* The scene is the list of the materials of its spheres.  Which sphere a  *)
(* ray hits, if any, depends on a direction that each scatter draws at     *)
(* random, so the result of world.hit_by is a choice between a miss and a  *)
(* hit of any sphere of the scene.                                         *)
(***************************************************************************)
Dielectric_new(refraction_index) ==
    [kind |-> "Dielectric", refraction_index |-> refraction_index]

\* new_ray_dir is the reflected or refracted direction the code computes
Dielectric_scatter(m, ray, hit, new_ray_dir) ==
    LET no_attenuation == Color_new(1000, 1000, 1000)
    IN  MaterialEffect_new(no_attenuation, Ray_new(hit.point, new_ray_dir))

\* hit.material.scatter(ray, &hit)
Material_scatter(m, ray, hit, rnd) ==
    IF m.kind = "Lambertian" THEN Lambertian_scatter(m, ray, hit, rnd)
    ELSE IF m.kind = "Metal" THEN Metal_scatter(m, ray, hit, rnd)
    ELSE Dielectric_scatter(m, ray, hit, rnd)

TraceWorlds ==
    {<<>>,
     <<Lambertian_new(Color_new(500, 500, 500))>>,
     <<Metal_new(Color_new(700, 600, 500), 0)>>,
     <<Lambertian_new(Color_new(500, 500, 500)), Dielectric_new(1500),
       Metal_new(Color_new(700, 600, 500), 1)>>}

\* 0.5 * (unit_dir.y + 1.0) for a ray pointing straight down, level, straight up
SkyParameters == {0, 500, 1000}

\* ray_color, lines 234-236
Background(t) ==
    Color_add(Color_scale(1000 - t, Color_new(1000, 1000, 1000)),
              Color_scale(t, Color_new(500, 700, 1000)))

exhausted_below_minus_one(depth) == depth < -1

\* ray_color, line 224
exhausted(depth) == depth < 0

TraceSetBounceLimit ==
    /\ trace.pc = "settings"
    /\ \E val \in BounceLimits : settings' = ray_bounce_limit(settings, val)
    /\ trace' = [trace EXCEPT !.pc = "sample"]
    /\ UNCHANGED <<img, pc, line, col, writes, out, reads, geomVars>>

\* fill_image, line 260: ray_color(&ray, world, settings.ray_bounce_limit as i16)
SampleRayColor ==
    /\ trace.pc = "sample"
    /\ trace' = [trace EXCEPT !.pc = "ray_color",
                              !.depth0 = AsI16(settings.ray_bounce_limit),
                              !.depth = AsI16(settings.ray_bounce_limit)]
    /\ UNCHANGED <<settings, img, pc, line, col, writes, out, reads, geomVars>>

\* ray_color, lines 224-226
RayColorExhausted ==
    /\ trace.pc = "ray_color"
    /\ exhausted(trace.depth)
    /\ trace' = [trace EXCEPT !.pc = "done", !.result = Color_mul(trace.atten, BLACK)]
    /\ UNCHANGED <<settings, img, pc, line, col, writes, out, reads, geomVars>>

\* ray_color, lines 227, 234-236: hit_by returns None
RayColorMiss ==
    /\ trace.pc = "ray_color"
    /\ ~exhausted(trace.depth)
    /\ \E t \in SkyParameters :
           trace' = [trace EXCEPT !.pc = "done", !.queries = @ + 1,
                                  !.result = Color_mul(trace.atten, Background(t))]
    /\ UNCHANGED <<settings, img, pc, line, col, writes, out, reads, geomVars>>

\* ray_color, lines 227-232: hit_by returns a hit of sphere i
RayColorHit ==
    /\ trace.pc = "ray_color"
    /\ ~exhausted(trace.depth)
    /\ \E i \in 1 .. Len(trace.world), x \in ScatterArgs :
           LET effect == Material_scatter(trace.world[i], x.ray, x.hit, x.rnd)
           IN  IF effect.scattered.some
               THEN trace' = [trace EXCEPT !.queries = @ + 1, !.scatters = @ + 1,
                                           !.depth = @ - 1,
                                           !.atten = Color_mul(@, effect.attenuation)]
               ELSE trace' = [trace EXCEPT !.pc = "done", !.queries = @ + 1,
                                           !.result = Color_mul(trace.atten, BLACK)]
    /\ UNCHANGED <<settings, img, pc, line, col, writes, out, reads, geomVars>>

TraceInit ==
    /\ \E world \in TraceWorlds :
           trace = [pc |-> "settings", world |-> world, depth0 |-> 0, depth |-> 0,
                    queries |-> 0, scatters |-> 0, atten |-> WHITE, result |-> BLACK]
    /\ settings = RenderSettings_default
    /\ RenderIdle
    /\ GeomIdle

TraceNext ==
    \/ TraceSetBounceLimit
    \/ SampleRayColor
    \/ RayColorExhausted
    \/ RayColorMiss
    \/ RayColorHit

SpecTrace == TraceInit /\ [][TraceNext]_vars

\* ray_color is sequential code: a step that can be taken is taken
SpecTraceLive == SpecTrace /\ WF_vars(TraceNext)

(***************************************************************************)
(* vec.rs: random_in_unit_disk                                             *)
(*                                                                         *)
(* The draws of gen_range lie on a grid of step 1/DiskGrid: x = k/DiskGrid *)
(* for k in -DiskGrid .. DiskGrid - 1, the half-open range [-1, 1) with    *)
(* its lower end, and a guess g/DiskGrid for g in 0 .. DiskGrid - 1, the   *)
(* range [0, 1).  Squares are in units of 1/DiskGrid^2.                    *)
(***************************************************************************)
DiskGrid == 8

\* gen_range(-1.0, 1.0)
DiskXs == (-DiskGrid) .. (DiskGrid - 1)

\* gen_range(0.0, 1.0)
DiskGuesses == 0 .. (DiskGrid - 1)

DiskOne == DiskGrid * DiskGrid

\* x_square + guess * guess < 1.0
disk_accepts(x_square, guess) == x_square + guess * guess < DiskOne

\* lines 187-188: draw x, compute x_square, enter the loop
DiskDrawX ==
    /\ call = NoCall
    /\ \E x \in DiskXs :
           call' = [op |-> "random_in_unit_disk", pc |-> "loop", x |-> x,
                    x_square |-> x * x, guess |-> -1, result |-> Vector_new(0, 0, 0)]
    /\ UNCHANGED <<renderVars, traceVars>>

\* lines 189-195: one turn of the loop with the draw guess; a break ends the
\* loop and the function returns Vector::new(x, y, 0.0)
DiskGuess(guess) ==
    /\ call.op = "random_in_unit_disk"
    /\ call.pc = "loop"
    /\ IF disk_accepts(call.x_square, guess)
       THEN call' = [call EXCEPT !.pc = "done", !.guess = guess,
                                 !.result = Vector_new(call.x, guess, 0)]
       ELSE call' = [call EXCEPT !.guess = guess]
    /\ UNCHANGED <<renderVars, traceVars>>

DiskLoop == \E guess \in DiskGuesses : DiskGuess(guess)

DiskInit == call = NoCall /\ RenderIdle /\ SettingsIdle /\ TraceIdle

DiskNext ==
    \/ DiskDrawX
    \/ DiskLoop

SpecDisk == DiskInit /\ [][DiskNext]_vars

\* the function is sequential code, and each value of the range of the guess
\* is drawn again and again
SpecDiskLive ==
    /\ SpecDisk
    /\ WF_vars(DiskDrawX)
    /\ \A guess \in DiskGuesses : SF_vars(DiskGuess(guess))

(***************************************************************************)
(* Claims about the render pipeline (Spec)                                 *)
(***************************************************************************)
ChannelInRange(ch) == ch # F_NAN /\ 0 <= ch /\ ch <= 999

FillImageCompleted == pc \in {"write", "done", "panic"}

\* C2: after fill_image completes, every channel of every pixel of the buffer
\* lies in [0, 0.999].
CexC2_ChannelsClamped ==
    FillImageCompleted =>
        \A i \in 1 .. Len(img.data) :
            /\ ChannelInRange(img.data[i].red)
            /\ ChannelInRange(img.data[i].green)
            /\ ChannelInRange(img.data[i].blue)

\* C3: the computation of pixel (row, col) stores into the slot row*width + col
\* and leaves every other slot as it was, and when the loops end every slot
\* 0 .. width*height - 1 has been stored into exactly once.
ThmC3_OwnSlotOnce ==
    /\ [][(img'.data # img.data \/ writes' # writes) =>
            /\ pc = "fill_image"
            /\ LET i == line * img.width + col + 1
               IN  /\ i \in 1 .. img.width * img.height
                   /\ writes' = [writes EXCEPT ![i] = @ + 1]
                   /\ DOMAIN img'.data = DOMAIN img.data
                   /\ \A j \in DOMAIN img.data : j # i => img'.data[j] = img.data[j]]_vars
    /\ [](FillImageCompleted =>
            /\ Len(img.data) = img.width * img.height
            /\ \A j \in 1 .. img.width * img.height : writes[j] = 1)

\* fill_image has ended on the 3 x 2 image: all six slots were stored into
\* once, the slot of pixel (1, 0) among them with a colour that is not black
WitC3_AllSlotsWritten ==
    /\ pc = "write"
    /\ img.width = 3 /\ img.height = 2
    /\ \A j \in 1 .. 6 : writes[j] = 1
    /\ img.data[4] # BLACK
    /\ img.data[3] = BLACK

\* C5: an invalid configuration (zero samples, or a width or height whose
\* pixel-coordinate divisor width-1 or height-1 is zero) is rejected when it
\* is constructed, so the pixel loop of fill_image never runs with it.
CexC5_InvalidConfigRejected ==
    (pc = "fill_image" /\ line < img.height /\ col < img.width) =>
        /\ settings.antialiasing_samples # 0
        /\ img.width - 1 # 0
        /\ img.height - 1 # 0

\* C10: PPMWriter.write emits for every row l and column c the pixel stored in
\* slot l*width + c, reads each slot exactly once and never indexes past the
\* end of the buffer.
CexC10_RowMajorRead ==
    (pc \in {"done", "panic"}) =>
        /\ pc # "panic"
        /\ Len(out) = img.width * img.height
        /\ \A l \in 0 .. img.height - 1 : \A c \in 0 .. img.width - 1 :
              LET px == img.data[l * img.width + c + 1]
              IN  out[l * img.width + c + 1] =
                      [red |-> numerize(px.red), green |-> numerize(px.green),
                       blue |-> numerize(px.blue)]
        /\ \A i \in 1 .. Len(img.data) : reads[i] = 1

(***************************************************************************)
(* Claims about ray_color (SpecTraceLive)                                  *)
(***************************************************************************)
RayColorBounded ==
    (trace.pc \in {"ray_color", "done"}) =>
        /\ trace.queries <= (IF trace.depth0 < 0 THEN 0 ELSE trace.depth0 + 1)
        /\ (trace.depth0 < 0 /\ trace.pc = "done") =>
              (trace.queries = 0 /\ trace.result = BLACK)

\* C4: ray_color terminates for every scene and every depth; along one path it
\* queries the scene at most depth + 1 times, and called with depth < 0 it
\* returns black without querying the scene.
ThmC4_RayColorTerminates ==
    /\ []RayColorBounded
    /\ <>(trace.pc = "done")

\* a path that scatters at every query until the budget of depth 2 is used up:
\* three queries, then black
WitC4_BudgetUsedUp ==
    /\ trace.pc = "done"
    /\ trace.depth0 = 2
    /\ trace.queries = 3
    /\ trace.scatters = 3
    /\ trace.depth = -1
    /\ trace.result = BLACK

\* C12: for every ray_bounce_limit RenderSettings accepts (0 .. 65535) the
\* depth a sample's ray_color starts with equals ray_bounce_limit, so the
\* depth < 0 check returns black only after ray_bounce_limit + 1 scatter
\* events on the path.
CexC12_DepthIsBounceLimit ==
    (trace.pc = "ray_color") =>
        /\ trace.depth0 = settings.ray_bounce_limit
        /\ exhausted(trace.depth) => trace.scatters >= settings.ray_bounce_limit + 1

(***************************************************************************)
(* Claims about random_in_unit_disk (SpecDiskLive)                         *)
(***************************************************************************)
DiskReturned == call.op = "random_in_unit_disk" /\ call.pc = "done"

\* the returned vector (x, y, 0) has x*x + y*y < 1 and y >= 0
DiskResultInHalfDisk ==
    DiskReturned =>
        /\ call.result.x * call.result.x + call.result.y * call.result.y < DiskOne
        /\ call.result.y >= 0
        /\ call.result.z = 0

\* C13: random_in_unit_disk terminates for every x it can draw from [-1, 1),
\* x = -1 included, given that each y of [0, 1) is drawn infinitely often,
\* and the vector it returns has x*x + y*y < 1, y >= 0 and z = 0.
CexC13_DiskTerminates ==
    /\ <>DiskReturned
    /\ []DiskResultInHalfDisk

====
